---- MODULE Spec2Model ----
\* Lifecycle orchestrator of platform-service-framework (update, validate) with
\* its collaborators (revision store, reconciler, source resolver) as state.
\* Text that the program compares, slices or searches is a sequence of
\* one-character strings; text that is only printed is a TLA+ string.
EXTENDS Integers, Sequences, FiniteSets, TLC

\* -------------------------------------------------------------- bounds
MaxCmds == 2
MaxReportLen == 2
MaxPatterns == 2
MaxApps == 2

\* ------------------------------------------------------ text primitives
\* Python None, kept apart from every text (a text holds single characters).
None == <<"<None>">>

Truthy(s) == s # None /\ s # <<>>

StartsWith(s, p) == Len(s) >= Len(p) /\ SubSeq(s, 1, Len(p)) = p

EndsWith(s, p) == Len(s) >= Len(p) /\ SubSeq(s, Len(s) - Len(p) + 1, Len(s)) = p

Drop(s, n) == SubSeq(s, n + 1, Len(s))

\* Python's `p in s` on two str values.
Contains(s, p) == \E i \in 0..(Len(s) - Len(p)) : SubSeq(s, i + 1, i + Len(p)) = p

Range(s) == {s[i] : i \in 1..Len(s)}

SeqsUpTo(S, n) == UNION {[1..k -> S] : k \in 0..n}

\* list(set): every element once, in an order the runtime picks.
ListsOf(S) == {s \in [1..Cardinality(S) -> S] : Range(s) = S}

\* ------------------------------------------------------------- literals
_FILE_URL_PREFIX == <<"f","i","l","e",":","/","/">>
_GIT_URL_PREFIX == <<"g","i","t","+">>
DOT_GIT == <<".","g","i","t">>
KW_CONFLICT == <<"c","o","n","f","l","i","c","t">>
KW_CREATE == <<"c","r","e","a","t","e">>

\* dry-run diagnostic lines
L_CONFLICT_M == KW_CONFLICT \o <<" ","m",".","p","y">>
L_CREATE_M == KW_CREATE \o <<" ","m",".","p","y">>
L_CREATE_S == KW_CREATE \o <<" ","s",".","p","y">>
L_CREATE_X == KW_CREATE \o <<" ","x",".","t","x","t">>
L_IDENT_M == <<"i","d","e","n","t","i","c","a","l"," ","m",".","p","y">>
Lines == {L_CONFLICT_M, L_CREATE_S, L_CREATE_X, L_IDENT_M}

\* protected-file patterns
P_M == <<"m",".","p","y">>
P_S == <<"s",".","p","y">>
P_PY == <<"p","y">>
Patterns == {P_M, P_S, P_PY}

\* template locations and revisions
URL_PLAIN == <<"h","/","r">>
URL_GIT == URL_PLAIN \o DOT_GIT
URL_PLUS == _GIT_URL_PREFIX \o URL_PLAIN
URL_OLD == <<"h","/","o">> \o DOT_GIT
URL_LOCAL == _FILE_URL_PREFIX \o <<"/","t">>
REV_TAG == <<"v","1">>
REV_SHA == <<"a","b","c">>
REV_OLD == <<"0","0","1">>
REV_NEW == <<"0","0","2">>
BRANCH == <<"d","e","v","e","l">>
HEAD_SHA == <<"f","e","d">>
LOCAL_PATH == <<"/","t">>

\* the destination directory, as a path, and paths inside it
DESTINATION == <<"destination">>
ANSWERS_FILE == ".copier-answers.yml"
OTHER_FILE == "test_file.txt"
MANAGE_FILE == "manage.py"

\* ------------------------------------------------------------- messages
M_UPDATING == <<"Updating your app on {destination}">>
M_DIRTY == <<"Error: Working tree has uncommitted changes.">>
M_STASH == <<"Please commit or stash your changes before running update.">>
M_CLEAN == <<"Working tree is clean">>
M_GITSTATUS == <<"Error: Could not check git status: {e}">>
M_VALFAILED == <<"Validation failed. Please fix the issues before updating.">>
M_CURSRC == <<"Current template source: {old_src}">>
M_DETSRC == <<"Detected framework source: {src_path}">>
M_UPDSRC == <<"Updating template source to: {src_path}">>
M_WROTE == <<"Updated .copier-answers.yml">>
M_COMMITTED_SRC == <<"Committed .copier-answers.yml changes">>
M_WARN_COMMIT == <<"Warning: Could not commit .copier-answers.yml: {e}">>
M_UNCHANGED == <<"Template source unchanged">>
M_RUNNING == <<"Running copier update...">>
M_USINGREF == <<"Using VCS ref: {vcs_ref}">>
M_CONFLICTS == <<"Error: Merge conflicts detected during update.">>
M_RESOLVE == <<"Please resolve conflicts manually and commit the changes.">>
M_SEE == <<"To see conflicts: git status">>
M_COMMITTING == <<"Committing update changes...">>
M_COMMITTED == <<"Update committed successfully">>
M_NOCHANGES == <<"No changes from update">>
M_ERR_COMMIT == <<"Error: Could not commit update: {e}">>
M_REVIEW == <<"Please review and commit changes manually.">>
M_VALIDATING == <<"Validating your app on {destination}">>
M_NOGIT == <<"Platform service framework is only supported in git-tracked repositories. Please initialize your repository.">>
M_NOANSWERS == <<"No answers file found (.copier-answers.yml), please run the command from the root of the project">>
M_NOCOMMIT == <<"Error: .copier-answers.yml is missing the '_commit' key. Cannot validate project.">>
M_SKIP == <<"Note: .protected_files.yaml not found. Skipping protected files check.">>
M_SUCCESS == <<"No framework infractions found, your project is ready to be updated!">>
M_NOKEY == <<"Error: {config_path} is missing 'protected_files' key.">>
M_PARSE == <<"Error: Failed to parse {config_path}: {e}">>
M_INFRACTIONS == <<"The following files should not be modified or deleted:">>
M_UNDO == <<"Please undo these changes and run the command again">>

M_INITIALIZING == <<"Initializing your project on {destination}">>
M_MAIN == <<"Main project created.">>
M_CREATED_APP == <<"Created app {app_name}">>
M_FINISHED == <<"Framework init finished">>
M_PROJECT_AT == <<"Created project at {destination}/{project}">>
M_APPS_AT == <<"Created apps at {destination}/apps/[...]">>
M_INIT_COMMITTING == <<"Committing initial project...">>
M_INIT_COMMITTED == <<"Initial commit created">>
M_INIT_NOCHANGES == <<"No changes to commit">>
M_NOTE_COMMIT == <<"Note: Could not create initial commit: {e}">>
M_MANUAL == <<"You may want to commit manually with: git add -A && git commit">>
M_TEMPLATE_SRC == <<"Template source: {src_path}">>
M_VCS_REF == <<"VCS ref: {vcs_ref}">>

\* ------------------------------------------------------- source resolver
\* Installation metadata as the resolver reads it: the distribution
\* (dist._path), direct_url.json and, for a file:// url, the repository the
\* url points to.
MetaRec(dist, file, url, vcs, rr, cid, lgit, ldirty, ldetached) ==
    [dist |-> dist, file |-> file, url |-> url, vcs |-> vcs, rr |-> rr, cid |-> cid,
     lgit |-> lgit, ldirty |-> ldirty, ldetached |-> ldetached]

Resolved(src, ref) == [ok |-> TRUE, src |-> src, ref |-> ref, err |-> "none"]

Failed(err) == [ok |-> FALSE, src |-> None, ref |-> None, err |-> err]

\* x or y on str | None values
PyOr(x, y) == IF Truthy(x) THEN x ELSE y

\* faulty variant: a record that cannot be read taken as an empty record
_read_direct_url_metadata_lenient(m) ==
    IF m.dist = "nopath" THEN Failed("RuntimeError: package metadata not found")
    ELSE IF m.file = "absent" THEN Failed("RuntimeError: direct_url.json not found")
    ELSE Resolved(m.url, None)

\* utils.py 23-47
_read_direct_url_metadata(m) ==
    IF m.dist = "nopath" THEN Failed("RuntimeError: package metadata not found")
    ELSE IF m.file = "absent" THEN Failed("RuntimeError: direct_url.json not found")
    ELSE IF m.file = "unreadable" THEN Failed("RuntimeError: Failed to read direct_url.json")
    ELSE Resolved(m.url, None)

\* str(Path(text)): trailing separators are dropped, the empty path is "."
RECURSIVE PathStr(_)
PathStr(s) ==
    IF s = <<>> THEN <<".">>
    ELSE IF Len(s) > 1 /\ s[Len(s)] = "/" THEN PathStr(SubSeq(s, 1, Len(s) - 1))
    ELSE s

\* faulty variant: the revision of a local source read from vcs_info
_get_local_repo_ref_from_metadata(m) ==
    IF m.lgit = "broken" THEN Failed("RuntimeError: failed to access repository")
    ELSE IF m.ldirty THEN Failed("RuntimeError: uncommitted changes")
    ELSE Resolved(None, PyOr(m.rr, m.cid))

\* utils.py 62-90: HEAD's commit id when detached, else the branch name
_get_local_repo_ref(m) ==
    IF m.lgit = "broken" THEN Failed("RuntimeError: failed to access repository")
    ELSE IF m.ldirty THEN Failed("RuntimeError: uncommitted changes")
    ELSE IF m.ldetached THEN Resolved(None, HEAD_SHA)
    ELSE Resolved(None, BRANCH)

\* faulty variant: the repository opened before its root is looked for
_parse_local_source_ref_first(url, m) ==
    LET local_path == PathStr(Drop(url, Len(_FILE_URL_PREFIX)))
        ref == _get_local_repo_ref(m)
    IN  IF ~ref.ok THEN ref
        ELSE IF m.lgit = "none" THEN Failed("RuntimeError: not a git repository")
        ELSE Resolved(local_path, ref.ref)

\* utils.py 105-117
_parse_local_source(url, m) ==
    LET local_path == PathStr(Drop(url, Len(_FILE_URL_PREFIX)))
        ref == _get_local_repo_ref(m)
    IN  IF m.lgit = "none" THEN Failed("RuntimeError: not a git repository")
        ELSE IF ~ref.ok THEN ref
        ELSE Resolved(local_path, ref.ref)

\* faulty variant: the suffix appended without looking
_parse_git_url_always_suffix(url, rr, cid) ==
    LET u1 == IF StartsWith(url, _GIT_URL_PREFIX) THEN Drop(url, Len(_GIT_URL_PREFIX)) ELSE url
    IN  Resolved(u1 \o DOT_GIT, PyOr(rr, cid))

\* utils.py 130-141
_parse_git_url(url, rr, cid) ==
    LET u1 == IF StartsWith(url, _GIT_URL_PREFIX) THEN Drop(url, Len(_GIT_URL_PREFIX)) ELSE url
        u2 == IF ~EndsWith(u1, DOT_GIT) THEN u1 \o DOT_GIT ELSE u1
    IN  Resolved(u2, PyOr(rr, cid))

get_repo(m) ==
    LET data == _read_direct_url_metadata(m)
    IN  IF ~data.ok THEN data
        ELSE IF ~Truthy(m.url) THEN Failed("RuntimeError: URL not found in installation metadata")
        ELSE IF StartsWith(m.url, _FILE_URL_PREFIX) THEN _parse_local_source(m.url, m)
        ELSE IF m.vcs THEN _parse_git_url(m.url, m.rr, m.cid)
        ELSE _parse_git_url(m.url, None, None)

\* ------------------------------------------------------ drift classifier
\* faulty variant: "create" lines (deleted files) not counted
IsConflictLine_conflict_only(line) == Contains(line, KW_CONFLICT)

IsConflictLine(line) == Contains(line, KW_CONFLICT) \/ Contains(line, KW_CREATE)

\* conflicts = [line for line in output if "conflict" in line or "create" in line]
Conflicts(output) == SelectSeq(output, IsConflictLine)

\* faulty variant: the containment test the wrong way round
InfractionSet_reversed(conflicts, protected_files) ==
    {conflicts[i] : i \in {k \in 1..Len(conflicts) :
        \E j \in 1..Len(protected_files) : Contains(protected_files[j], conflicts[k])}}

\* {conflict for conflict in conflicts for file in protected_files if file in conflict}
InfractionSet(conflicts, protected_files) ==
    {conflicts[i] : i \in {k \in 1..Len(conflicts) :
        \E j \in 1..Len(protected_files) : Contains(conflicts[k], protected_files[j])}}

\* ------------------------------------------------------- persisted files
\* A YAML mapping is the sequence of its key/value pairs, in file order.
Pair(k, v) == [k |-> k, v |-> v]

HasKey(pairs, key) == \E i \in 1..Len(pairs) : pairs[i].k = key

\* mapping.get(key)
Get(pairs, key) ==
    IF HasKey(pairs, key)
    THEN pairs[CHOOSE i \in 1..Len(pairs) : pairs[i].k = key].v
    ELSE None

\* faulty variant: the key removed and written again at the end
SetKey_moved_to_end(pairs, key, value) ==
    Append(SelectSeq(pairs, LAMBDA q : q.k # key), Pair(key, value))

\* mapping[key] = value: in place when the key exists, appended otherwise
SetKey(pairs, key, value) ==
    IF HasKey(pairs, key)
    THEN [i \in 1..Len(pairs) |-> IF pairs[i].k = key THEN Pair(key, value) ELSE pairs[i]]
    ELSE Append(pairs, Pair(key, value))

AnswersRec(exists, kind, header, pairs) ==
    [exists |-> exists, kind |-> kind, header |-> header, pairs |-> pairs]

PolicyRec(exists, kind, hasKey, vkind, pats) ==
    [exists |-> exists, kind |-> kind, hasKey |-> hasKey, vkind |-> vkind, pats |-> pats]

PROJECT == <<"p","r","o","j">>

AnswersFiles ==
    { AnswersRec(FALSE, "null", FALSE, <<>>),
      AnswersRec(TRUE, "null", FALSE, <<>>),
      AnswersRec(TRUE, "map", FALSE, <<Pair("_src_path", URL_GIT), Pair("project_name", PROJECT)>>),
      AnswersRec(TRUE, "map", FALSE,
                 <<Pair("_commit", REV_OLD), Pair("_src_path", URL_GIT), Pair("project_name", PROJECT)>>),
      AnswersRec(TRUE, "map", FALSE,
                 <<Pair("_commit", REV_OLD), Pair("_src_path", URL_OLD), Pair("project_name", PROJECT)>>),
      AnswersRec(TRUE, "map", FALSE, <<Pair("project_name", PROJECT), Pair("_commit", REV_OLD)>>) }

PolicyFiles ==
    { PolicyRec(FALSE, "null", FALSE, "seq", <<>>),
      PolicyRec(TRUE, "null", FALSE, "seq", <<>>),
      PolicyRec(TRUE, "unparseable", FALSE, "seq", <<>>),
      PolicyRec(TRUE, "map", FALSE, "seq", <<>>),
      PolicyRec(TRUE, "map", TRUE, "null", <<>>),
      PolicyRec(TRUE, "map", TRUE, "seq", <<>>),
      PolicyRec(TRUE, "map", TRUE, "seq", <<P_M>>),
      PolicyRec(TRUE, "map", TRUE, "seq", <<P_S, P_PY>>) }

DriftReports ==
    { <<>>,
      <<L_CONFLICT_M>>,
      <<L_CREATE_M>>,
      <<L_CREATE_X, L_IDENT_M>>,
      <<L_CONFLICT_M, L_CREATE_S, L_CONFLICT_M>> }

Installations ==
    { MetaRec("ok", "absent", None, FALSE, None, None, "none", FALSE, FALSE),
      MetaRec("ok", "ok", URL_PLUS, TRUE, REV_TAG, REV_SHA, "none", FALSE, FALSE),
      MetaRec("ok", "ok", URL_GIT, FALSE, None, None, "none", FALSE, FALSE),
      MetaRec("ok", "ok", URL_LOCAL, FALSE, None, None, "ok", FALSE, FALSE) }

\* ----------------------------------------------------------------- state
VARIABLES
    dir,          \* the destination directory: "absent", "empty", or "used"
    git,          \* destination/.git: "none", "ok", or "broken" (present, Repo() raises)
    wt,           \* paths with unstaged or untracked changes
    index,        \* staged paths
    unmerged,     \* the index holds unmerged blobs
    history,      \* commits made, oldest first
    answers,      \* .copier-answers.yml
    policy,       \* .protected_files.yaml
    drift,        \* what the reconciler's dry-run recopy reports for the destination
    meta,         \* installation metadata of the running tool
    cmd,          \* command being executed
    pc,           \* its position
    out,          \* standard output of the execution
    calls,        \* collaborator calls of the execution, in order
    exit,         \* "none", "running", "0", "1", or "exc" (uncaught exception)
    vres,         \* validate's return value: "none", "True", "False"
    infractions,  \* validate's local list
    src_path,     \* local of the running function
    vcs_ref,      \* local of update
    output,       \* validate's captured diagnostic lines
    commitFailed, \* commit steps of the execution that raised
    ncmds,        \* commands started so far
    stderr,       \* target of the process's diagnostic channel: "terminal" or "buffer"
    apps,         \* init's list of sub-app names
    appi,         \* sub-apps init has created so far
    env0,         \* persisted state when the execution started
    prev          \* the execution before this one, when it was a validate that returned

envVars == <<dir, git, wt, index, unmerged, history, answers, policy, drift, meta>>

procVars == <<cmd, pc, out, calls, exit, vres, infractions, src_path, vcs_ref, output,
              commitFailed, ncmds, apps, appi, stderr, env0, prev>>

vars == <<envVars, procVars>>

Env ==
    [dir |-> dir, git |-> git, wt |-> wt, index |-> index, unmerged |-> unmerged, history |-> history,
     answers |-> answers, policy |-> policy, drift |-> drift, meta |-> meta]

\* faulty variant: the existence check dropped
GitDirAssumed == TRUE

\* Path(destination / ".git").exists()
GitDirExists == git # "none"

\* faulty variant: untracked and unstaged changes not counted
is_dirty_staged_only == index # {}

\* faulty variant: staged changes not counted
is_dirty_worktree_only == wt # {}

\* Repo.is_dirty(untracked_files=True)
is_dirty == wt # {} \/ index # {}

\* faulty variant: the conflict check skipped
HasUnmerged_unchecked == FALSE

\* repo.index.unmerged_blobs(), as a truth value
HasUnmerged == unmerged

\* faulty variant: another key looked up
HasCommitKey_wrong_key(a) == HasKey(a.pairs, "_src_path")

\* "_commit" in copier_answers, on a mapping
HasCommitKey(a) == HasKey(a.pairs, "_commit")

\* faulty variant: a missing policy file treated like a malformed one
LoadPolicy_missing_is_error(p) ==
    IF ~p.exists THEN "missing_key"
    ELSE IF p.kind = "unparseable" THEN "parse_error"
    ELSE IF p.kind = "null" \/ ~p.hasKey THEN "missing_key"
    ELSE "loaded"

\* faulty variant: a policy without the key read as an empty list of patterns
LoadPolicy_default_empty(p) ==
    IF ~p.exists THEN "skip"
    ELSE IF p.kind = "unparseable" THEN "parse_error"
    ELSE "loaded"

\* cli.py 303-320: how the policy file loads
LoadPolicy(p) ==
    IF ~p.exists THEN "skip"
    ELSE IF p.kind = "unparseable" THEN "parse_error"
    ELSE IF p.kind = "null" \/ ~p.hasKey THEN "missing_key"
    ELSE "loaded"

\* faulty variant: a failed source-change commit aborts
SourceCommitOutcome_fatal(fails) ==
    IF fails = "no"
    THEN [pc |-> "u_run", exit |-> "running", msg |-> M_COMMITTED_SRC]
    ELSE [pc |-> "done", exit |-> "1", msg |-> M_WARN_COMMIT]

\* cli.py 193-196: the source-change commit, and what its failure leads to
SourceCommitOutcome(fails) ==
    [pc |-> "u_run", exit |-> "running",
     msg |-> IF fails = "no" THEN M_COMMITTED_SRC ELSE M_WARN_COMMIT]

\* cli.py 241-244: what a failure of the update commit leads to
UpdateCommitFailure == [exit |-> "1", msgs |-> <<M_ERR_COMMIT, M_REVIEW>>]

\* A collaborator call: the operation, its source location, revision and
\* destination arguments, the keyword options passed as True, and its data.
CallWith(op, src, ref, dst, opts, data) ==
    [op |-> op, src |-> src, ref |-> ref, dst |-> dst, opts |-> opts, data |-> data]

Call(op, src, ref) == CallWith(op, src, ref, None, {}, None)

Commit(msg, files) == [msg |-> msg, files |-> files]

Init ==
    /\ dir \in {"absent", "empty", "used"}
    /\ git \in IF dir = "used" THEN {"none", "ok", "broken"} ELSE {"none"}
    /\ wt \in IF git = "ok" THEN {{}, {OTHER_FILE}} ELSE {{}}
    /\ index \in IF git = "ok" /\ wt = {} THEN {{}, {MANAGE_FILE}} ELSE {{}}
    /\ unmerged = FALSE
    /\ history = <<>>
    /\ answers \in IF dir = "used" THEN AnswersFiles ELSE {a \in AnswersFiles : ~a.exists}
    /\ policy \in IF dir = "used" THEN PolicyFiles ELSE {p \in PolicyFiles : ~p.exists}
    /\ drift \in IF dir = "used" THEN DriftReports ELSE {<<>>}
    /\ meta \in Installations
    /\ cmd = "none"
    /\ pc = "idle"
    /\ out = <<>>
    /\ calls = <<>>
    /\ exit = "none"
    /\ vres = "none"
    /\ infractions = <<>>
    /\ src_path = None
    /\ vcs_ref = None
    /\ output = <<>>
    /\ commitFailed = {}
    /\ ncmds = 0
    /\ apps = <<>>
    /\ appi = 0
    /\ stderr = "terminal"
    /\ env0 = Env
    /\ prev = [valid |-> FALSE, res |-> "none", infr |-> {}]

\* ------------------------------------------------------- command dispatch
\* The CLI starts one command with the sub-app names L; its locals are fresh.
BeginWith(c, first, L) ==
    /\ pc \in {"idle", "done"}
    /\ ncmds < MaxCmds
    /\ cmd' = c
    /\ pc' = first
    /\ out' = <<>>
    /\ calls' = <<>>
    /\ exit' = "running"
    /\ vres' = "none"
    /\ infractions' = <<>>
    /\ src_path' = None
    /\ vcs_ref' = None
    /\ output' = <<>>
    /\ commitFailed' = {}
    /\ ncmds' = ncmds + 1
    /\ apps' = L
    /\ appi' = 0
    /\ stderr' = "terminal"
    /\ env0' = Env
    /\ prev' = IF cmd = "validate" /\ vres # "none"
               THEN [valid |-> TRUE, res |-> vres, infr |-> Range(infractions)]
               ELSE [valid |-> FALSE, res |-> "none", infr |-> {}]
    /\ UNCHANGED envVars

Begin(c, first) == BeginWith(c, first, <<>>)

\* The process exit code after validate returned: the tests expect 0 for
\* True and 1 for False.
ExitOfResult(r) == IF r = "True" THEN "0" ELSE "1"

\* validate returns r after printing msgs: to the CLI, or to update.
Return(r, msgs) ==
    /\ vres' = r
    /\ out' = out \o msgs
    /\ pc' = IF cmd = "update" THEN "u_validated" ELSE "done"
    /\ exit' = IF cmd = "update" THEN exit ELSE ExitOfResult(r)

\* An exception nothing catches ends the process.
Raise(msgs) ==
    /\ out' = out \o msgs
    /\ pc' = "done"
    /\ exit' = "exc"

\* sys.exit(code) after printing msgs
SysExit(code, msgs) ==
    /\ out' = out \o msgs
    /\ pc' = "done"
    /\ exit' = code

\* --------------------------------------------------------------- validate
ValidateBegin == Begin("validate", "v_pre")

\* cli.py 264-288: the three precondition checks
ValidatePreconditions ==
    /\ pc = "v_pre"
    /\ IF ~GitDirExists
       THEN Return("False", <<M_VALIDATING, M_NOGIT>>)
       ELSE IF ~answers.exists
       THEN Return("False", <<M_VALIDATING, M_NOANSWERS>>)
       ELSE IF answers.kind = "null"
       THEN Raise(<<M_VALIDATING>>) /\ UNCHANGED vres
       ELSE IF ~HasCommitKey(answers)
       THEN Return("False", <<M_VALIDATING, M_NOCOMMIT>>)
       ELSE /\ out' = Append(out, M_VALIDATING)
            /\ pc' = "v_resolve"
            /\ UNCHANGED <<vres, exit>>
    /\ UNCHANGED <<envVars, cmd, calls, infractions, src_path, vcs_ref, output,
                   commitFailed, ncmds, apps, appi,
                   stderr, env0, prev>>

\* cli.py 291: src_path, _ = get_repo()
ValidateResolve ==
    /\ pc = "v_resolve"
    /\ calls' = Append(calls, Call("get_repo", None, None))
    /\ LET r == get_repo(meta)
       IN  IF r.ok
           THEN /\ src_path' = r.src
                /\ pc' = "v_redirect"
                /\ UNCHANGED <<out, exit>>
           ELSE Raise(<<>>) /\ UNCHANGED src_path
    /\ UNCHANGED <<envVars, cmd, vres, infractions, vcs_ref, output, commitFailed,
                   ncmds, apps, appi,
                   stderr, env0, prev>>

\* faulty variant: the recopy not in pretend mode, the files rendered again
RecopyDrift_applied(d) == <<>>

\* faulty variant: the recopy overwrites the files it reports as conflicts
RecopyDrift_conflicts_overwritten(d) == SelectSeq(d, LAMBDA l : ~Contains(l, KW_CONFLICT))

\* What run_recopy(pretend=True) leaves of the destination's drift.
RecopyDrift(d) == d

\* faulty variant: the installed revision passed to the recopy
RecopyRef_resolved(a, resolved) == resolved

\* cli.py 299: vcs_ref=copier_answers.get("_commit"); the revision get_repo
\* returned is dropped at line 291
RecopyRef(a, resolved) == Get(a.pairs, "_commit")

\* The diagnostics of a dry-run recopy at revision ref: drift is the report
\* against the revision the answers record names, and against any other
\* revision the report can be any.
DryRunReports(ref) ==
    IF ref = Get(answers.pairs, "_commit") THEN {drift} ELSE DriftReports

\* faulty variant: the channel left on the buffer when the call raises
redirect_stderr_exit_return_only(raised) == IF raised THEN "buffer" ELSE "terminal"

\* cli.py 293: entering `with redirect_stderr(f)` points the channel at f
redirect_stderr_enter == "buffer"

\* cli.py 293-302: leaving the with block, by return or by exception, points
\* the channel back at its previous target
redirect_stderr_exit(raised) == "terminal"

\* What f.getvalue() holds of the diagnostics written while the channel
\* pointed at target.
Captured(target, diagnostics) == IF target = "buffer" THEN diagnostics ELSE <<>>

\* cli.py 292-293: f = io.StringIO(); with redirect_stderr(f):
ValidateRedirect ==
    /\ pc = "v_redirect"
    /\ stderr' = redirect_stderr_enter
    /\ pc' = "v_recopy"
    /\ UNCHANGED <<envVars, cmd, out, calls, exit, vres, infractions, src_path, vcs_ref,
                   output, commitFailed, ncmds, apps, appi, env0, prev>>

\* cli.py 294-302: the dry-run recopy inside the with block, its diagnostics
\* captured, and the block left
ValidateRecopy ==
    /\ pc = "v_recopy"
    /\ LET ref == RecopyRef(answers, get_repo(meta).ref) IN
        /\ calls' = Append(calls, CallWith("run_recopy", src_path, ref, DESTINATION,
                                           {"skip_answered", "overwrite", "pretend"}, None))
        /\ \E raises \in BOOLEAN :
            /\ stderr' = redirect_stderr_exit(raises)
            /\ IF raises
               THEN Raise(<<>>) /\ UNCHANGED <<output, drift>>
               ELSE /\ \E report \in DryRunReports(ref) : output' = Captured(stderr, report)
                    /\ drift' = RecopyDrift(drift)
                    /\ pc' = "v_policy"
                    /\ UNCHANGED <<out, exit>>
    /\ UNCHANGED <<dir, git, wt, index, unmerged, history, answers, policy, meta, cmd, vres,
                   infractions, src_path, vcs_ref, commitFailed, ncmds, apps, appi,
                   env0, prev>>

\* cli.py 303-341: the policy and the infractions
ValidateClassify ==
    /\ pc = "v_policy"
    /\ IF LoadPolicy(policy) = "skip"
       THEN Return("True", <<M_SKIP, M_SUCCESS>>) /\ UNCHANGED infractions
       ELSE IF LoadPolicy(policy) = "parse_error"
       THEN Return("False", <<M_PARSE>>) /\ UNCHANGED infractions
       ELSE IF LoadPolicy(policy) = "missing_key"
       THEN Return("False", <<M_NOKEY>>) /\ UNCHANGED infractions
       ELSE IF policy.vkind = "null" /\ Conflicts(output) # <<>>
       THEN Raise(<<>>) /\ UNCHANGED <<vres, infractions>>
       ELSE \E lst \in ListsOf(InfractionSet(Conflicts(output), policy.pats)) :
            /\ infractions' = lst
            /\ IF lst # <<>>
               THEN Return("False", <<M_INFRACTIONS>> \o lst \o <<M_UNDO>>)
               ELSE Return("True", <<M_SUCCESS>>)
    /\ UNCHANGED <<envVars, cmd, calls, src_path, vcs_ref, output, commitFailed,
                   ncmds, apps, appi,
                   stderr, env0, prev>>

\* ----------------------------------------------------------------- update
\* cli.py 134-135
UpdateBegin ==
    /\ Begin("update", "u_clean")

\* cli.py 137-148: the working tree must be clean
UpdateCheckClean ==
    /\ pc = "u_clean"
    /\ IF ~GitDirExists
       THEN /\ out' = Append(out, M_UPDATING)
            /\ pc' = "v_pre"
            /\ UNCHANGED <<exit, calls>>
       ELSE IF git = "broken"
       THEN /\ SysExit("1", <<M_UPDATING, M_GITSTATUS>>)
            /\ calls' = Append(calls, Call("Repo", None, None))
       ELSE IF is_dirty
       THEN /\ SysExit("1", <<M_UPDATING, M_DIRTY, M_STASH>>)
            /\ calls' = calls \o <<Call("Repo", None, None), Call("is_dirty", None, None)>>
       ELSE /\ out' = out \o <<M_UPDATING, M_CLEAN>>
            /\ pc' = "v_pre"
            /\ calls' = calls \o <<Call("Repo", None, None), Call("is_dirty", None, None)>>
            /\ UNCHANGED exit
    /\ UNCHANGED <<envVars, cmd, vres, infractions, src_path, vcs_ref, output,
                   commitFailed, ncmds, apps, appi,
                   stderr, env0, prev>>

\* faulty variant: validate's verdict not looked at
ValidationFailed_ignored(r) == FALSE

\* cli.py 151: not validate(destination)
ValidationFailed(r) == r # "True"

\* cli.py 151-153: validate's verdict
UpdateValidated ==
    /\ pc = "u_validated"
    /\ IF ValidationFailed(vres)
       THEN SysExit("1", <<M_VALFAILED>>)
       ELSE /\ pc' = "u_resolve"
            /\ UNCHANGED <<out, exit>>
    /\ UNCHANGED <<envVars, cmd, calls, vres, infractions, src_path, vcs_ref, output,
                   commitFailed, ncmds, apps, appi,
                   stderr, env0, prev>>

\* cli.py 156: src_path, vcs_ref = get_repo()
UpdateResolve ==
    /\ pc = "u_resolve"
    /\ calls' = Append(calls, Call("get_repo", None, None))
    /\ LET r == get_repo(meta)
       IN  IF r.ok
           THEN /\ src_path' = r.src
                /\ vcs_ref' = r.ref
                /\ pc' = "u_answers"
                /\ UNCHANGED <<out, exit>>
           ELSE Raise(<<>>) /\ UNCHANGED <<src_path, vcs_ref>>
    /\ UNCHANGED <<envVars, cmd, vres, infractions, output, commitFailed, ncmds, apps, appi,
                   stderr, env0, prev>>

\* cli.py 171-178: the AnswersRecord rewritten with the new _src_path
RewriteAnswers(a, src) == AnswersRec(TRUE, "map", TRUE, SetKey(a.pairs, "_src_path", src))

\* cli.py 158-198: the stored source compared with the resolved one, the
\* record rewritten and committed when they differ
UpdateAnswers ==
    /\ pc = "u_answers"
    /\ LET old_src == Get(answers.pairs, "_src_path")
           source_changed == old_src # src_path
       IN  IF source_changed
           THEN /\ answers' = RewriteAnswers(answers, src_path)
                /\ \E fails \in {"no", "add", "commit"} :
                    /\ calls' = calls \o
                         (IF fails = "add"
                          THEN <<Call("add", None, None)>>
                          ELSE <<Call("add", None, None), Call("commit", None, None)>>)
                    /\ wt' = IF fails = "add" THEN wt \cup {ANSWERS_FILE} ELSE wt
                    /\ index' = IF fails = "commit" THEN index \cup {ANSWERS_FILE}
                                ELSE IF fails = "no" THEN {} ELSE index
                    /\ history' = IF fails = "no"
                                  THEN Append(history, Commit("Update template source",
                                                              index \cup {ANSWERS_FILE}))
                                  ELSE history
                    /\ commitFailed' = IF fails = "no" THEN commitFailed
                                       ELSE commitFailed \cup {"source"}
                    /\ out' = out \o <<M_CURSRC, M_DETSRC, M_UPDSRC, M_WROTE,
                                       SourceCommitOutcome(fails).msg>>
                    /\ pc' = SourceCommitOutcome(fails).pc
                    /\ exit' = SourceCommitOutcome(fails).exit
           ELSE /\ out' = out \o <<M_CURSRC, M_DETSRC, M_UNCHANGED>>
                /\ pc' = "u_run"
                /\ UNCHANGED <<answers, calls, wt, index, history, commitFailed, exit>>
    /\ UNCHANGED <<dir, git, unmerged, policy, drift, meta, cmd, vres, infractions,
                   src_path, vcs_ref, output, ncmds, apps, appi,
                   stderr, env0, prev>>

\* What the reconciler's update can leave behind: nothing new, merged
\* changes, or changes with unmerged paths.
UpdateOutcomes ==
    { [changed |-> {}, unmerged |-> FALSE],
      [changed |-> {ANSWERS_FILE, MANAGE_FILE}, unmerged |-> FALSE],
      [changed |-> {ANSWERS_FILE, MANAGE_FILE}, unmerged |-> TRUE] }

\* faulty variant: the update run without overwrite
RunUpdateOptions_no_overwrite == {"skip_answered"}

\* cli.py 208-209: the keyword options update passes as True
RunUpdateOptions == {"overwrite", "skip_answered"}

\* cli.py 200-210: run_update(destination, vcs_ref, overwrite, skip_answered)
UpdateRun ==
    /\ pc = "u_run"
    /\ calls' = Append(calls, CallWith("run_update", None, vcs_ref, DESTINATION,
                                        RunUpdateOptions, None))
    /\ \E raises \in BOOLEAN :
        IF raises
        THEN /\ Raise(<<M_RUNNING>> \o (IF Truthy(vcs_ref) THEN <<M_USINGREF>> ELSE <<>>))
             /\ UNCHANGED <<wt, unmerged, answers, drift>>
        ELSE \E o \in UpdateOutcomes :
             /\ out' = out \o <<M_RUNNING>> \o (IF Truthy(vcs_ref) THEN <<M_USINGREF>> ELSE <<>>)
             /\ wt' = wt \cup o.changed
             /\ unmerged' = o.unmerged
             /\ answers' = IF o.changed = {} THEN answers
                           ELSE AnswersRec(TRUE, "map", TRUE,
                                           SetKey(answers.pairs, "_commit", REV_NEW))
             /\ drift' \in IF o.changed = {} THEN {drift} ELSE DriftReports
             /\ pc' = "u_commit"
             /\ UNCHANGED exit
    /\ UNCHANGED <<dir, git, index, history, policy, meta, cmd, vres, infractions, src_path,
                   vcs_ref, output, commitFailed, ncmds, apps, appi,
                   stderr, env0, prev>>

\* faulty variant: untracked and unstaged paths left out of the staging
StagedByAddAll_index_only(w, i) == i

\* cli.py 226: repo.git.add(A=True), every change of the tree goes to the index
StagedByAddAll(w, i) == i \cup w

\* cli.py 212-244: conflicts are an error, changes are committed
UpdateCommit ==
    /\ pc = "u_commit"
    /\ \E fails \in {"no", "open", "add", "commit"} :
        IF fails = "open"
        THEN /\ SysExit(UpdateCommitFailure.exit, UpdateCommitFailure.msgs)
             /\ calls' = Append(calls, Call("Repo", None, None))
             /\ UNCHANGED <<wt, index, history, commitFailed>>
        ELSE IF HasUnmerged
        THEN /\ SysExit("1", <<M_CONFLICTS, M_RESOLVE, M_SEE>>)
             /\ calls' = calls \o <<Call("Repo", None, None), Call("unmerged_blobs", None, None)>>
             /\ UNCHANGED <<wt, index, history, commitFailed>>
        ELSE IF ~is_dirty
        THEN /\ SysExit("0", <<M_NOCHANGES>>)
             /\ calls' = calls \o <<Call("Repo", None, None), Call("unmerged_blobs", None, None),
                                    Call("is_dirty", None, None)>>
             /\ UNCHANGED <<wt, index, history, commitFailed>>
        ELSE IF fails = "add"
        THEN /\ SysExit(UpdateCommitFailure.exit, <<M_COMMITTING>> \o UpdateCommitFailure.msgs)
             /\ calls' = calls \o <<Call("Repo", None, None), Call("unmerged_blobs", None, None),
                                    Call("is_dirty", None, None), Call("add", None, None)>>
             /\ commitFailed' = commitFailed \cup {"update"}
             /\ UNCHANGED <<wt, index, history>>
        ELSE IF fails = "commit"
        THEN /\ SysExit(UpdateCommitFailure.exit, <<M_COMMITTING>> \o UpdateCommitFailure.msgs)
             /\ calls' = calls \o <<Call("Repo", None, None), Call("unmerged_blobs", None, None),
                                    Call("is_dirty", None, None), Call("add", None, None),
                                    Call("commit", None, None)>>
             /\ commitFailed' = commitFailed \cup {"update"}
             /\ index' = StagedByAddAll(wt, index)
             /\ wt' = wt \ StagedByAddAll(wt, index)
             /\ UNCHANGED history
        ELSE /\ SysExit("0", <<M_COMMITTING, M_COMMITTED>>)
             /\ calls' = calls \o <<Call("Repo", None, None), Call("unmerged_blobs", None, None),
                                    Call("is_dirty", None, None), Call("add", None, None),
                                    Call("commit", None, None)>>
             /\ history' = Append(history, Commit("Update project from template",
                                                  StagedByAddAll(wt, index)))
             /\ index' = {}
             /\ wt' = wt \ StagedByAddAll(wt, index)
             /\ UNCHANGED commitFailed
    /\ UNCHANGED <<dir, git, unmerged, answers, policy, drift, meta, cmd, vres, infractions,
                   src_path, vcs_ref, output, ncmds, apps, appi,
                   stderr, env0, prev>>

\* ------------------------------------------------------------------- init
\* sub-app names a user may pass, and the path each is created at
AppNames == {"api", "web"}

AppDir(name) == IF name = "api" THEN "apps/api" ELSE "apps/web"

APPS_MARKER == "apps/__init__.py"

T_PROJECT == "templates/project"
T_APP == "templates/app"

\* the data argument of run_copy
CopyData(project, template) == [project_name |-> project, template |-> template]

\* init with a list of sub-app names (the default is one app)
InitBegin == \E L \in SeqsUpTo(AppNames, MaxApps) : BeginWith("init", "i_prepare", L)

\* faulty variant: the revision store never initialised
InitRepo_skipped(g) == g

\* faulty variant: the revision store initialised again over an existing one
InitRepo_always(g) == "ok"

\* cli.py 54-55: Repo.init when destination/.git does not exist
InitRepo(g) == IF g = "none" THEN "ok" ELSE g

\* cli.py 50-57: the destination directory and its revision store
InitPrepare ==
    /\ pc = "i_prepare"
    /\ \E fails \in {"no"} \cup (IF dir = "absent" THEN {"mkdir"} ELSE {})
                         \cup (IF ~GitDirExists THEN {"git_init"} ELSE {}) :
        /\ dir' = IF dir = "absent" /\ fails # "mkdir" THEN "empty" ELSE dir
        /\ git' = IF fails = "no" THEN InitRepo(git) ELSE git
        /\ calls' = calls \o (IF dir = "absent" THEN <<Call("mkdir", None, None)>> ELSE <<>>)
                           \o (IF ~GitDirExists /\ fails # "mkdir"
                               THEN <<Call("Repo.init", None, None)>> ELSE <<>>)
        /\ IF fails = "no"
           THEN /\ out' = out \o <<M_INITIALIZING>>
                /\ pc' = "i_resolve"
                /\ UNCHANGED exit
           ELSE Raise(<<>>)
    /\ UNCHANGED <<wt, index, unmerged, history, answers, policy, drift, meta, cmd, vres,
                   infractions, src_path, vcs_ref, output, commitFailed, ncmds, apps, appi,
                   stderr, env0, prev>>

\* cli.py 58: src_path, vcs_ref = get_repo()
InitResolve ==
    /\ pc = "i_resolve"
    /\ calls' = Append(calls, Call("get_repo", None, None))
    /\ LET r == get_repo(meta) IN
        IF r.ok THEN /\ src_path' = r.src
                     /\ vcs_ref' = r.ref
                     /\ pc' = "i_project"
                     /\ UNCHANGED <<out, exit>>
        ELSE Raise(<<>>) /\ UNCHANGED <<src_path, vcs_ref>>
    /\ UNCHANGED <<envVars, cmd, vres, infractions, output, commitFailed, ncmds, apps, appi,
                   stderr, env0, prev>>

\* The reconciler's copy of the project template, as the specification
\* describes it: a fresh render that writes the answers record; the template
\* carries a policy file protecting manage.py, and an instance nobody has
\* touched since shows no drift.
TemplatePolicy == PolicyRec(TRUE, "map", TRUE, "seq", <<P_M>>)

RenderedAnswers(src, project) ==
    AnswersRec(TRUE, "map", FALSE,
               <<Pair("_commit", REV_NEW), Pair("_src_path", src), Pair("project_name", project)>>)

RenderedFiles == {ANSWERS_FILE, MANAGE_FILE}

\* cli.py 59-68: the project template copied into the destination root
InitCopyProject ==
    /\ pc = "i_project"
    /\ calls' = Append(calls, CallWith("run_copy", src_path, vcs_ref, DESTINATION, {},
                                        CopyData(PROJECT, T_PROJECT)))
    /\ \E raises \in BOOLEAN :
        IF raises
        THEN Raise(<<>>) /\ UNCHANGED <<dir, wt, answers, policy, drift>>
        ELSE /\ dir' = "used"
             /\ answers' = RenderedAnswers(src_path, PROJECT)
             /\ policy' = IF policy.exists THEN policy ELSE TemplatePolicy
             /\ drift' = IF dir = "used" THEN drift ELSE <<L_IDENT_M>>
             /\ wt' \in IF git = "ok" /\ dir = "used" /\ answers.exists
                        THEN {wt, wt \cup RenderedFiles}
                        ELSE {wt \cup RenderedFiles}
             /\ out' = out \o <<M_MAIN>>
             /\ pc' = "i_apps"
             /\ UNCHANGED exit
    /\ UNCHANGED <<git, index, unmerged, history, meta, cmd, vres, infractions, src_path,
                   vcs_ref, output, commitFailed, ncmds, apps, appi, stderr, env0, prev>>

\* cli.py 70-81: one pass of the loop over the sub-app names
InitCopyApp ==
    /\ pc = "i_apps"
    /\ appi < Len(apps)
    /\ LET app_name == apps[appi + 1] IN
        /\ calls' = Append(calls, CallWith("run_copy", src_path, vcs_ref,
                                            DESTINATION \o <<"apps", app_name>>, {},
                                            CopyData(PROJECT, T_APP)))
        /\ \E raises \in BOOLEAN :
            IF raises
            THEN Raise(<<>>) /\ UNCHANGED <<wt, appi>>
            ELSE /\ wt' = wt \cup {AppDir(app_name)}
                 /\ out' = out \o <<M_CREATED_APP>>
                 /\ appi' = appi + 1
                 /\ UNCHANGED <<pc, exit>>
    /\ UNCHANGED <<dir, git, index, unmerged, history, answers, policy, drift, meta, cmd,
                   vres, infractions, src_path, vcs_ref, output, commitFailed, ncmds, apps,
                   stderr, env0, prev>>

\* faulty variant: the marker written whatever the list holds
NeedsMarker_always(L) == TRUE

\* cli.py 83: if apps
NeedsMarker(L) == L # <<>>

\* cli.py 83-91: the apps module marker and the closing report
InitFinish ==
    /\ pc = "i_apps"
    /\ appi = Len(apps)
    /\ IF NeedsMarker(apps)
       THEN /\ calls' = Append(calls, CallWith("touch", None, None,
                                               DESTINATION \o <<"apps", "__init__.py">>, {}, None))
            /\ wt' = wt \cup {APPS_MARKER}
       ELSE UNCHANGED <<calls, wt>>
    /\ out' = out \o <<M_FINISHED, M_PROJECT_AT>> \o (IF apps # <<>> THEN <<M_APPS_AT>> ELSE <<>>)
    /\ pc' = "i_commit"
    /\ UNCHANGED <<dir, git, index, unmerged, history, answers, policy, drift, meta, cmd,
                   exit, vres, infractions, src_path, vcs_ref, output, commitFailed, ncmds,
                   apps, appi, stderr, env0, prev>>

\* faulty variant: a failed initial commit aborts
InitCommitFailure_fatal == [exit |-> "1", msgs |-> <<M_NOTE_COMMIT, M_MANUAL>>]

\* cli.py 112-114: what a failure of the initial commit leads to; the
\* function then returns
InitCommitFailure == [exit |-> "0", msgs |-> <<M_NOTE_COMMIT, M_MANUAL>>]

INIT_COMMIT_MSG == "[platform-service-framework] Initialize project"

\* cli.py 93-114: the initial commit, never fatal
InitCommit ==
    /\ pc = "i_commit"
    /\ pc' = "done"
    /\ \E fails \in {"no", "open", "add", "commit"} :
        IF git # "ok" \/ fails = "open"
        THEN /\ calls' = Append(calls, Call("Repo", None, None))
             /\ out' = out \o InitCommitFailure.msgs
             /\ exit' = InitCommitFailure.exit
             /\ commitFailed' = commitFailed \cup {"initial"}
             /\ UNCHANGED <<wt, index, history>>
        ELSE IF ~is_dirty
        THEN /\ calls' = calls \o <<Call("Repo", None, None), Call("is_dirty", None, None)>>
             /\ out' = out \o <<M_INIT_NOCHANGES>>
             /\ exit' = "0"
             /\ UNCHANGED <<wt, index, history, commitFailed>>
        ELSE IF fails = "add"
        THEN /\ calls' = calls \o <<Call("Repo", None, None), Call("is_dirty", None, None),
                                    Call("add", None, None)>>
             /\ out' = out \o <<M_INIT_COMMITTING>> \o InitCommitFailure.msgs
             /\ exit' = InitCommitFailure.exit
             /\ commitFailed' = commitFailed \cup {"initial"}
             /\ UNCHANGED <<wt, index, history>>
        ELSE IF fails = "commit"
        THEN /\ calls' = calls \o <<Call("Repo", None, None), Call("is_dirty", None, None),
                                    Call("add", None, None), Call("commit", None, None)>>
             /\ out' = out \o <<M_INIT_COMMITTING>> \o InitCommitFailure.msgs
             /\ exit' = InitCommitFailure.exit
             /\ commitFailed' = commitFailed \cup {"initial"}
             /\ index' = index \cup wt
             /\ wt' = {}
             /\ UNCHANGED history
        ELSE /\ calls' = calls \o <<Call("Repo", None, None), Call("is_dirty", None, None),
                                    Call("add", None, None), Call("commit", None, None)>>
             /\ out' = out \o <<M_INIT_COMMITTING, M_INIT_COMMITTED>>
             /\ exit' = "0"
             /\ history' = Append(history, Commit(INIT_COMMIT_MSG, index \cup wt))
             /\ index' = {}
             /\ wt' = {}
             /\ UNCHANGED commitFailed
    /\ UNCHANGED <<dir, git, unmerged, answers, policy, drift, meta, cmd, vres, infractions,
                   src_path, vcs_ref, output, ncmds, apps, appi, stderr, env0, prev>>

\* ------------------------------------------------------------------ debug
M_DEBUG_INFO == <<"Package version, package location, direct URL metadata">>
M_DEBUG_ERROR == <<"Error getting debug info: {e}">>

DebugBegin == Begin("debug", "d_resolve")

\* cli.py 350-372: the resolved source printed, and with FRAMEWORK_DEBUG set
\* the installation's details or the error met reading them
DebugResolve ==
    /\ pc = "d_resolve"
    /\ calls' = Append(calls, Call("get_repo", None, None))
    /\ LET r == get_repo(meta) IN
        IF r.ok
        THEN /\ src_path' = r.src
             /\ vcs_ref' = r.ref
             /\ \E more \in {<<>>, <<M_DEBUG_INFO>>, <<M_DEBUG_ERROR>>} :
                    out' = out \o <<M_TEMPLATE_SRC>>
                               \o (IF Truthy(r.ref) THEN <<M_VCS_REF>> ELSE <<>>) \o more
             /\ pc' = "done"
             /\ exit' = "0"
        ELSE Raise(<<>>) /\ UNCHANGED <<src_path, vcs_ref>>
    /\ UNCHANGED <<envVars, cmd, vres, infractions, output, commitFailed, ncmds, apps, appi,
                   stderr, env0, prev>>

\* ---------------------------------------------------------- specification
Next ==
    \/ ValidateBegin
    \/ ValidatePreconditions
    \/ ValidateResolve
    \/ ValidateRedirect
    \/ ValidateRecopy
    \/ ValidateClassify
    \/ UpdateBegin
    \/ UpdateCheckClean
    \/ UpdateValidated
    \/ UpdateResolve
    \/ UpdateAnswers
    \/ UpdateRun
    \/ UpdateCommit

Spec == Init /\ [][Next]_vars

\* init and validate, in sessions that start on a destination that is absent,
\* empty, or in use, for every bounded list of sub-app names.
InitInit ==
    /\ dir \in {"absent", "empty", "used"}
    /\ git \in IF dir = "used" THEN {"none", "ok", "broken"} ELSE {"none"}
    /\ wt \in IF git = "ok" THEN {{}, {OTHER_FILE}} ELSE {{}}
    /\ index \in IF git = "ok" /\ wt = {} THEN {{}, {MANAGE_FILE}} ELSE {{}}
    /\ unmerged = FALSE
    /\ history = <<>>
    /\ answers \in IF dir = "used"
                   THEN {AnswersRec(FALSE, "null", FALSE, <<>>),
                         AnswersRec(TRUE, "map", FALSE,
                                    <<Pair("_commit", REV_OLD), Pair("_src_path", URL_OLD),
                                      Pair("project_name", PROJECT)>>)}
                   ELSE {AnswersRec(FALSE, "null", FALSE, <<>>)}
    /\ policy \in IF dir = "used"
                  THEN {PolicyRec(FALSE, "null", FALSE, "seq", <<>>), TemplatePolicy}
                  ELSE {PolicyRec(FALSE, "null", FALSE, "seq", <<>>)}
    /\ drift = IF dir = "used" THEN <<L_CONFLICT_M>> ELSE <<>>
    /\ meta \in {MetaRec("ok", "absent", None, FALSE, None, None, "none", FALSE, FALSE),
                 MetaRec("ok", "ok", URL_LOCAL, FALSE, None, None, "none", FALSE, FALSE),
                 MetaRec("ok", "ok", URL_LOCAL, FALSE, None, None, "ok", TRUE, FALSE),
                 MetaRec("ok", "ok", URL_PLUS, TRUE, REV_TAG, REV_SHA, "none", FALSE, FALSE)}
    /\ cmd = "none"
    /\ pc = "idle"
    /\ out = <<>>
    /\ calls = <<>>
    /\ exit = "none"
    /\ vres = "none"
    /\ infractions = <<>>
    /\ src_path = None
    /\ vcs_ref = None
    /\ output = <<>>
    /\ commitFailed = {}
    /\ ncmds = 0
    /\ apps = <<>>
    /\ appi = 0
    /\ stderr = "terminal"
    /\ env0 = Env
    /\ prev = [valid |-> FALSE, res |-> "none", infr |-> {}]

NextInit ==
    \/ InitBegin
    \/ InitPrepare
    \/ InitResolve
    \/ InitCopyProject
    \/ InitCopyApp
    \/ InitFinish
    \/ InitCommit
    \/ ValidateBegin
    \/ ValidatePreconditions
    \/ ValidateResolve
    \/ ValidateRedirect
    \/ ValidateRecopy
    \/ ValidateClassify

SpecInit == InitInit /\ [][NextInit]_vars

\* The source resolver alone, run by the debug command, over installations
\* of every kind: remote urls with and without the git+ prefix and the .git
\* suffix, every presence of requested_revision and commit_id, and local
\* sources in every repository state.
RemoteBases == {URL_PLAIN, <<"h","/","o">>}

Variants(b) == {b, b \o DOT_GIT, _GIT_URL_PREFIX \o b, _GIT_URL_PREFIX \o b \o DOT_GIT}

RemoteUrls == UNION {Variants(b) : b \in RemoteBases}

LocalUrls == {URL_LOCAL, URL_LOCAL \o <<"/">>}

StoredRevisions == {None, <<>>, REV_TAG}

StoredCommitIds == {None, <<>>, REV_SHA}

ResolverInputs ==
    { MetaRec("nopath", "absent", None, FALSE, None, None, "none", FALSE, FALSE),
      MetaRec("ok", "absent", None, FALSE, None, None, "none", FALSE, FALSE),
      MetaRec("ok", "unreadable", None, FALSE, None, None, "none", FALSE, FALSE),
      MetaRec("ok", "ok", None, FALSE, None, None, "none", FALSE, FALSE),
      MetaRec("ok", "ok", <<>>, FALSE, None, None, "none", FALSE, FALSE) }
    \cup { MetaRec("ok", "ok", u, FALSE, None, None, "none", FALSE, FALSE) : u \in RemoteUrls }
    \cup { MetaRec("ok", "ok", u, TRUE, rr, cid, "none", FALSE, FALSE) :
             u \in RemoteUrls, rr \in StoredRevisions, cid \in StoredCommitIds }
    \cup { MetaRec("ok", "ok", u, v, IF v THEN REV_TAG ELSE None, IF v THEN REV_SHA ELSE None,
                   g, d, h) :
             u \in LocalUrls, v \in BOOLEAN, g \in {"none", "broken", "ok"},
             d \in BOOLEAN, h \in BOOLEAN }

InitResolver ==
    /\ dir = "used"
    /\ git = "ok"
    /\ wt = {}
    /\ index = {}
    /\ unmerged = FALSE
    /\ history = <<>>
    /\ answers = AnswersRec(FALSE, "null", FALSE, <<>>)
    /\ policy = PolicyRec(FALSE, "null", FALSE, "seq", <<>>)
    /\ drift = <<>>
    /\ meta \in ResolverInputs
    /\ cmd = "none"
    /\ pc = "idle"
    /\ out = <<>>
    /\ calls = <<>>
    /\ exit = "none"
    /\ vres = "none"
    /\ infractions = <<>>
    /\ src_path = None
    /\ vcs_ref = None
    /\ output = <<>>
    /\ commitFailed = {}
    /\ ncmds = 0
    /\ apps = <<>>
    /\ appi = 0
    /\ stderr = "terminal"
    /\ env0 = Env
    /\ prev = [valid |-> FALSE, res |-> "none", infr |-> {}]

NextResolver ==
    \/ DebugBegin
    \/ DebugResolve

SpecResolver == InitResolver /\ [][NextResolver]_vars

\* validate alone, on a destination that passes its preconditions, for every
\* bounded dry-run report and every bounded list of patterns.
InitClassify ==
    /\ dir = "used"
    /\ git = "ok"
    /\ wt = {}
    /\ index = {}
    /\ unmerged = FALSE
    /\ history = <<>>
    /\ answers = AnswersRec(TRUE, "map", FALSE,
                   <<Pair("_commit", REV_OLD), Pair("_src_path", URL_GIT), Pair("project_name", PROJECT)>>)
    /\ policy \in {PolicyRec(TRUE, "map", TRUE, "seq", ps) : ps \in SeqsUpTo(Patterns, MaxPatterns)}
    /\ drift \in SeqsUpTo(Lines, MaxReportLen)
    /\ meta = MetaRec("ok", "ok", URL_PLUS, TRUE, REV_TAG, REV_SHA, "none", FALSE, FALSE)
    /\ cmd = "none"
    /\ pc = "idle"
    /\ out = <<>>
    /\ calls = <<>>
    /\ exit = "none"
    /\ vres = "none"
    /\ infractions = <<>>
    /\ src_path = None
    /\ vcs_ref = None
    /\ output = <<>>
    /\ commitFailed = {}
    /\ ncmds = 0
    /\ apps = <<>>
    /\ appi = 0
    /\ stderr = "terminal"
    /\ env0 = Env
    /\ prev = [valid |-> FALSE, res |-> "none", infr |-> {}]

NextClassify ==
    \/ ValidateBegin
    \/ ValidatePreconditions
    \/ ValidateResolve
    \/ ValidateRedirect
    \/ ValidateRecopy
    \/ ValidateClassify

SpecClassify == InitClassify /\ [][NextClassify]_vars

\* ------------------------------------------------------------ properties
Called(op) == \E i \in 1..Len(calls) : calls[i].op = op

Printed(m) == m \in Range(out)

\* C1: an update started on a repository whose working tree has uncommitted
\* or untracked changes stops at the clean-tree check: it exits 1 having
\* printed the uncommitted-changes message, and the execution calls neither
\* the dry-run recopy nor the reconciler update and makes no commit.
C1_DirtyTreeBlocksUpdate ==
    (cmd = "update" /\ env0.git = "ok" /\ (env0.wt # {} \/ env0.index # {})) =>
        /\ pc \in {"u_clean", "done"}
        /\ ~Called("run_recopy") /\ ~Called("run_update") /\ ~Called("commit")
        /\ history = env0.history
        /\ pc = "done" => exit = "1" /\ out = <<M_UPDATING, M_DIRTY, M_STASH>>

C1_Witness ==
    /\ cmd = "update" /\ pc = "done" /\ exit = "1"
    /\ env0.git = "ok" /\ OTHER_FILE \in env0.wt
    /\ Printed(M_DIRTY)

\* C2: an update on a destination without a .git root exits 1 after the
\* git-tracked-repositories message followed by the validation-failed
\* message, with or without an answers file, and the execution calls neither
\* the source resolver nor the reconciler.
C2_NoGitBlocksUpdate ==
    (cmd = "update" /\ env0.git = "none") =>
        /\ pc \in {"u_clean", "v_pre", "u_validated", "done"}
        /\ ~Called("get_repo") /\ ~Called("run_recopy") /\ ~Called("run_update")
        /\ pc = "done" =>
            exit = "1" /\ out = <<M_UPDATING, M_VALIDATING, M_NOGIT, M_VALFAILED>>

C2_Witness ==
    /\ cmd = "update" /\ pc = "done" /\ exit = "1"
    /\ env0.git = "none" /\ env0.answers.exists
    /\ Printed(M_NOGIT) /\ Printed(M_VALFAILED)

\* validate's three precondition checks pass on persisted state e
PreconditionsPass(e) ==
    /\ e.git # "none"
    /\ e.answers.exists
    /\ e.answers.kind = "map"
    /\ HasKey(e.answers.pairs, "_commit")

\* the policy file holds a mapping with a sequence of patterns under the key
WellFormed(p) == p.exists /\ p.kind = "map" /\ p.hasKey /\ p.vkind = "seq"

\* the distinct report lines that hold "conflict" or "create" and a pattern
ExpectedInfractions(report, pats) ==
    {l \in Range(report) :
        /\ Contains(l, KW_CONFLICT) \/ Contains(l, KW_CREATE)
        /\ \E q \in Range(pats) : Contains(l, q)}

\* C3: with the preconditions passed, the source resolved and a well-formed
\* policy, validate returns False exactly when the report holds an
\* infraction, and then prints every infraction line and the undo
\* instruction; a protected file reported by a "conflict" line (modified) or
\* by a "create" line (deleted) gives False.
C3_FalseIffInfractions ==
    (vres # "none" /\ PreconditionsPass(env0) /\ get_repo(env0.meta).ok
        /\ WellFormed(env0.policy)) =>
        LET exp == ExpectedInfractions(env0.drift, env0.policy.pats)
        IN  /\ (vres = "False") <=> (exp # {})
            /\ vres = "False" =>
                (\A l \in exp : Printed(l)) /\ Printed(M_INFRACTIONS) /\ Printed(M_UNDO)
            /\ vres = "True" => ~Printed(M_UNDO)
            /\ (P_M \in Range(env0.policy.pats)
                /\ (L_CONFLICT_M \in Range(env0.drift) \/ L_CREATE_M \in Range(env0.drift)))
                => vres = "False"

C3_Witness ==
    /\ cmd = "validate" /\ pc = "done" /\ vres = "False" /\ exit = "1"
    /\ env0.drift = <<L_CREATE_M>> /\ env0.policy.pats = <<P_M>>
    /\ Printed(L_CREATE_M) /\ Printed(M_UNDO)

\* C4: the infractions validate computes are exactly the distinct report
\* lines that hold "conflict" or "create" and at least one policy pattern,
\* each once, however many patterns match it and however often the report
\* repeats it.
C4_InfractionsExact ==
    (cmd = "validate" /\ pc = "done" /\ vres # "none" /\ WellFormed(policy)) =>
        /\ Range(infractions) = ExpectedInfractions(drift, policy.pats)
        /\ Len(infractions) = Cardinality(Range(infractions))
        /\ \A l \in Range(drift) :
            (~Contains(l, KW_CONFLICT) /\ ~Contains(l, KW_CREATE)) => l \notin Range(infractions)
        /\ \A l \in Range(drift) :
            (\A q \in Range(policy.pats) : ~Contains(l, q)) => l \notin Range(infractions)

C4_Witness ==
    /\ cmd = "validate" /\ pc = "done" /\ vres = "False"
    /\ drift = <<L_CONFLICT_M, L_CONFLICT_M>> /\ policy.pats = <<P_M, P_PY>>
    /\ infractions = <<L_CONFLICT_M>>

\* C5: with the preconditions passed and no policy file, validate returns
\* True after the skip note and the success phrase, whatever the report holds.
C5_MissingPolicyPasses ==
    (vres # "none" /\ PreconditionsPass(env0) /\ ~env0.policy.exists) =>
        /\ vres = "True"
        /\ Printed(M_SKIP) /\ Printed(M_SUCCESS)
        /\ cmd = "validate" => exit = "0"

C5_Witness ==
    /\ cmd = "validate" /\ pc = "done" /\ vres = "True"
    /\ ~env0.policy.exists /\ env0.drift = <<L_CONFLICT_M>>
    /\ Printed(M_SKIP)

\* C6: with the preconditions passed and a policy file that is empty,
\* unparseable or a mapping without the protected_files key, validate
\* returns False with an error message and without the success phrase, also
\* when the report holds no "conflict" or "create" line.
C6_MalformedPolicyFails ==
    (vres # "none" /\ PreconditionsPass(env0) /\ env0.policy.exists
        /\ (env0.policy.kind \in {"null", "unparseable"}
            \/ (env0.policy.kind = "map" /\ ~env0.policy.hasKey))) =>
        /\ vres = "False"
        /\ ~Printed(M_SUCCESS)
        /\ Printed(M_NOKEY) \/ Printed(M_PARSE)

C6_Witness ==
    /\ cmd = "validate" /\ pc = "done" /\ vres = "False" /\ exit = "1"
    /\ env0.policy.exists /\ env0.policy.kind = "map" /\ ~env0.policy.hasKey
    /\ env0.drift = <<>>
    /\ Printed(M_NOKEY)

\* C7: a validate that directly follows a validate, nothing having touched
\* the destination, the installation or the reconciler's report in between,
\* returns the same value and finds the same infractions.
C7_ValidateRepeatable ==
    (cmd = "validate" /\ pc = "done" /\ vres # "none" /\ prev.valid) =>
        /\ vres = prev.res
        /\ Range(infractions) = prev.infr

C7_Witness ==
    /\ cmd = "validate" /\ pc = "done" /\ prev.valid
    /\ vres = "False" /\ prev.infr # {}

C9_ConflictsNeverCommitted ==
    (cmd = "update" /\ Called("run_update") /\ unmerged) =>
        /\ \A i, j \in 1..Len(calls) :
            (calls[i].op = "run_update" /\ j > i) => calls[j].op \notin {"add", "commit"}
        /\ pc = "done" => exit = "1"
        /\ Called("unmerged_blobs") => Printed(M_CONFLICTS)
        /\ "update" \notin commitFailed

C9_Witness ==
    /\ cmd = "update" /\ pc = "done" /\ exit = "1"
    /\ unmerged /\ Called("run_update") /\ Called("unmerged_blobs")
    /\ Printed(M_CONFLICTS)

\* C10, as claimed: no failure of a staging or commit step ends update with
\* a non-zero exit code.
C10_Original ==
    ~(cmd = "update" /\ pc = "done" /\ exit # "0" /\ "update" \in commitFailed)

\* C10, amended: a failed commit of the rewritten answers file is a warning
\* and update goes on to the reconciler update; a failed stage-all or commit
\* after the reconciler update is reported as an error and ends update with
\* exit code 1.
C10_CommitFailures ==
    cmd = "update" =>
        /\ "source" \in commitFailed =>
            /\ Printed(M_WARN_COMMIT)
            /\ pc \in {"u_run", "u_commit", "done"}
            /\ pc = "u_run" => exit = "running"
            /\ pc = "done" => Called("run_update")
        /\ "update" \in commitFailed =>
            /\ pc = "done" /\ exit = "1"
            /\ Printed(M_ERR_COMMIT) /\ Printed(M_REVIEW)

C10_Witness ==
    /\ cmd = "update" /\ pc = "done" /\ exit = "0"
    /\ "source" \in commitFailed
    /\ Printed(M_WARN_COMMIT) /\ Printed(M_COMMITTED)

\* ------------------------------------------------------- properties: init
\* init came past every copy: its closing report is printed
CopiesSucceeded == cmd = "init" /\ Printed(M_FINISHED)

\* C11: an init whose directory creation, revision-store initialisation,
\* source resolution and copies all succeeded ends with exit code 0 even when
\* opening the repository, staging or the commit fails; the failure is only
\* reported as a note, and no commit is recorded. When the tree was dirty
\* after the copies and nothing failed, exactly one commit, the initial one,
\* is added to the history.
C11_InitCommitNonFatal ==
    (CopiesSucceeded /\ pc = "done") =>
        /\ exit = "0"
        /\ "initial" \in commitFailed =>
            /\ Printed(M_NOTE_COMMIT) /\ Printed(M_MANUAL)
            /\ history = env0.history
        /\ (Called("add") /\ "initial" \notin commitFailed) =>
            /\ Len(history) = Len(env0.history) + 1
            /\ SubSeq(history, 1, Len(env0.history)) = env0.history
            /\ history[Len(history)].msg = INIT_COMMIT_MSG
            /\ Printed(M_INIT_COMMITTED)
        /\ ~Called("add") => history = env0.history

C11_Witness ==
    /\ CopiesSucceeded /\ pc = "done" /\ exit = "0"
    /\ "initial" \in commitFailed /\ Called("commit")
    /\ Printed(M_NOTE_COMMIT)

\* ----------------------------------------------------- properties: update
\* positions in the call log of the execution where op was called
CallsOf(op) == {i \in 1..Len(calls) : calls[i].op = op}

\* C12: an execution of update calls the reconciler update at most once, and
\* only after, in this order, the clean-tree check (on a tree that was
\* clean), a validate that returned True after its dry-run recopy, and
\* update's own call of the source resolver; the call carries the revision
\* the resolver returns for the installation, the destination, and
\* overwrite and skip_answered and no other option. An update that exits 0
\* made the call exactly once.
C12_RunUpdateOnceAfterChecks ==
    cmd = "update" =>
        /\ Cardinality(CallsOf("run_update")) <= 1
        /\ \A i \in CallsOf("run_update") :
            /\ \E a, b, c \in 1..Len(calls) :
                /\ a < b /\ b < c /\ c < i
                /\ calls[a].op = "is_dirty"
                /\ calls[b].op = "run_recopy"
                /\ calls[c].op = "get_repo"
            /\ Printed(M_CLEAN)
            /\ env0.wt = {} /\ env0.index = {}
            /\ vres = "True"
            /\ get_repo(env0.meta).ok
            /\ calls[i].ref = get_repo(env0.meta).ref
            /\ calls[i].dst = DESTINATION
            /\ calls[i].opts = {"overwrite", "skip_answered"}
        /\ (pc = "done" /\ exit = "0") => Cardinality(CallsOf("run_update")) = 1

C12_Witness ==
    /\ cmd = "update" /\ pc = "done" /\ exit = "0"
    /\ Cardinality(CallsOf("run_update")) = 1
    /\ \E i \in CallsOf("run_update") : calls[i].ref = REV_TAG

\* C13: when validate returns False inside update, whatever the reason,
\* update prints the validation-failed message and exits 1; the answers
\* record, the working tree, the index and the commit history are as they
\* were when update started, and the reconciler update is not called.
C13_FailedValidationStopsUpdate ==
    (cmd = "update" /\ vres = "False") =>
        /\ pc \in {"u_validated", "done"}
        /\ pc = "done" => (exit = "1" /\ Printed(M_VALFAILED))
        /\ answers = env0.answers
        /\ wt = env0.wt /\ index = env0.index
        /\ history = env0.history
        /\ ~Called("run_update")

C13_Witness ==
    /\ cmd = "update" /\ pc = "done" /\ exit = "1"
    /\ vres = "False" /\ Printed(M_VALFAILED) /\ Printed(M_INFRACTIONS)
    /\ Called("run_recopy")

\* the keys of a mapping, in file order
Keys(pairs) == [i \in 1..Len(pairs) |-> pairs[i].k]

\* C14: right after update compared the stored _src_path with the resolved
\* location: when they differ the answers record holds the resolved location
\* under _src_path, every other key has the value it had, and the keys stand
\* in the order they stood in (a _src_path that was missing is added after
\* them); when they are equal the record is not written and no commit is
\* made for it.
C14_SourceRewrittenInPlace ==
    (cmd = "update" /\ pc = "u_run") =>
        LET old == env0.answers.pairs
            stored == Get(old, "_src_path")
            resolved == get_repo(env0.meta).src
        IN  IF stored # resolved
            THEN /\ Printed(M_WROTE)
                 /\ Get(answers.pairs, "_src_path") = resolved
                 /\ \A i \in 1..Len(old) :
                        old[i].k # "_src_path" =>
                            Get(answers.pairs, old[i].k) = old[i].v
                 /\ Keys(answers.pairs) =
                        IF HasKey(old, "_src_path") THEN Keys(old)
                        ELSE Append(Keys(old), "_src_path")
            ELSE /\ answers = env0.answers
                 /\ history = env0.history
                 /\ Printed(M_UNCHANGED) /\ ~Printed(M_WROTE)
                 /\ ~Called("add") /\ ~Called("commit")

C14_Witness ==
    /\ cmd = "update" /\ pc = "u_run"
    /\ Keys(env0.answers.pairs) = <<"_commit", "_src_path", "project_name">>
    /\ Get(env0.answers.pairs, "_src_path") = URL_OLD
    /\ Get(answers.pairs, "_src_path") = URL_GIT
    /\ Len(history) = Len(env0.history) + 1

\* -------------------------------------------- properties: validate's inputs
\* validate's result as the destination alone determines it
Verdict(p, report) ==
    IF ~p.exists THEN "True"
    ELSE IF p.kind # "map" \/ ~p.hasKey THEN "False"
    ELSE IF ExpectedInfractions(report, p.pats) = {} THEN "True" ELSE "False"

InstanceReady(e) ==
    /\ PreconditionsPass(e)
    /\ HasKey(e.answers.pairs, "_src_path")
    /\ get_repo(e.meta).ok
    /\ Verdict(e.policy, e.drift) = "True"

\* C16: an init that exits 0 on a destination that was absent or empty leaves
\* a revision-store root and an answers record holding _src_path and _commit,
\* with nothing drifted; and a validate started on such a destination, when
\* its dry-run recopy does not raise, returns True, exits 0 and prints the
\* success phrase.
C16_ValidateAfterInit ==
    /\ (cmd = "init" /\ pc = "done" /\ exit = "0" /\ env0.dir # "used") =>
            InstanceReady(Env)
    /\ (cmd = "validate" /\ pc = "done" /\ InstanceReady(env0) /\ exit # "exc") =>
            (vres = "True" /\ exit = "0" /\ Printed(M_SUCCESS))

C16_Witness ==
    /\ cmd = "validate" /\ pc = "done" /\ exit = "0" /\ vres = "True"
    /\ ncmds = 2
    /\ Len(history) = 1 /\ history[1].msg = INIT_COMMIT_MSG
    /\ answers = RenderedAnswers(URL_GIT, PROJECT)
    /\ drift = <<L_IDENT_M>>
    /\ Printed(M_SUCCESS)

\* the run_copy calls of the execution, in the order they were made
Copies == SelectSeq(calls, LAMBDA c : c.op = "run_copy")

\* C17: an init that came past its copies called run_copy exactly once for
\* the project template into the destination root and then once per sub-app
\* name, in list order, into destination/apps/<name>; every call has the
\* location and revision the resolver returned and the same project name;
\* the apps marker is touched exactly when the list is not empty, once, and
\* after the last copy. At no point of an init are there more copies than
\* that, nor a marker before the copies are done.
C17_CopiesInListOrder ==
    cmd = "init" =>
        /\ Len(Copies) <= 1 + Len(apps)
        /\ Cardinality(CallsOf("touch")) <= 1
        /\ \A t \in CallsOf("touch") :
            /\ apps # <<>>
            /\ Len(Copies) = 1 + Len(apps)
            /\ \A i \in CallsOf("run_copy") : i < t
        /\ Printed(M_FINISHED) =>
            /\ Len(Copies) = 1 + Len(apps)
            /\ Copies[1].dst = DESTINATION
            /\ Copies[1].data.template = T_PROJECT
            /\ \A k \in 1..Len(apps) :
                /\ Copies[k + 1].dst = DESTINATION \o <<"apps", apps[k]>>
                /\ Copies[k + 1].data.template = T_APP
            /\ \A k \in 1..Len(Copies) :
                /\ Copies[k].src = get_repo(env0.meta).src
                /\ Copies[k].ref = get_repo(env0.meta).ref
                /\ Copies[k].data.project_name = PROJECT
            /\ Called("touch") <=> apps # <<>>
            /\ (APPS_MARKER \in (wt \cup index) \ (env0.wt \cup env0.index)) => apps # <<>>

C17_Witness ==
    /\ cmd = "init" /\ pc = "done" /\ exit = "0"
    /\ apps = <<"web", "api">>
    /\ Len(Copies) = 3
    /\ Copies[2].dst = DESTINATION \o <<"apps", "web">>
    /\ Called("touch")

\* ------------------------------------------- properties: source resolver
\* the resolver returned for an installation from a remote url
ResolvedRemote ==
    /\ cmd = "debug" /\ pc = "done" /\ exit = "0"
    /\ ~StartsWith(env0.meta.url, _FILE_URL_PREFIX)

\* the resolver returned for an installation from a local source
ResolvedLocal ==
    /\ cmd = "debug" /\ pc = "done" /\ exit = "0"
    /\ StartsWith(env0.meta.url, _FILE_URL_PREFIX)

\* C18, as claimed: for a remote url the revision returned is the requested
\* revision when it is present and not empty, otherwise the commit id when
\* it is present and not empty, otherwise absent.
C18_Original ==
    ResolvedRemote =>
        vcs_ref = (IF env0.meta.vcs /\ env0.meta.rr # None /\ env0.meta.rr # <<>>
                   THEN env0.meta.rr
                   ELSE IF env0.meta.vcs /\ env0.meta.cid # None /\ env0.meta.cid # <<>>
                   THEN env0.meta.cid
                   ELSE None)

\* C19: for a remote url the location returned is the url without a leading
\* git+ and with .git at its end, added only when the url does not end with
\* it: the four spellings of one repository (with and without the prefix,
\* with and without the suffix) all give the same location, which ends with
\* one .git and does not start with git+.
C19_LocationNormalised ==
    ResolvedRemote =>
        /\ \A b \in RemoteBases :
               env0.meta.url \in Variants(b) => src_path = b \o DOT_GIT
        /\ EndsWith(src_path, DOT_GIT)
        /\ ~EndsWith(src_path, DOT_GIT \o DOT_GIT)
        /\ ~StartsWith(src_path, _GIT_URL_PREFIX)

C19_Witness ==
    /\ ResolvedRemote
    /\ env0.meta.url = _GIT_URL_PREFIX \o URL_PLAIN \o DOT_GIT
    /\ src_path = URL_GIT

SourceUndetectable ==
    { "RuntimeError: package metadata not found",
      "RuntimeError: direct_url.json not found",
      "RuntimeError: Failed to read direct_url.json",
      "RuntimeError: URL not found in installation metadata" }

NotVersionControlled == "RuntimeError: not a git repository"

DirtySource == "RuntimeError: uncommitted changes"

\* debug ended: the resolver was called on the installation and either
\* returned (exit 0, the source kept) or raised (nothing returned)
ResolverRan == cmd = "debug" /\ pc = "done" /\ Called("get_repo")

ReturnedNothing == exit = "exc" /\ src_path = None /\ vcs_ref = None

\* a file:// installation whose record and url were read
LocalInstallation(m) ==
    /\ m.dist = "ok" /\ m.file = "ok"
    /\ StartsWith(m.url, _FILE_URL_PREFIX)

\* C21: for a file:// url the resolver raises the not-a-repository error
\* when the directory has no repository root, whatever state a repository
\* there would be in (the root is looked for before the repository is
\* opened), and raises the uncommitted-changes error when the repository is
\* dirty, with HEAD detached or not; in both cases nothing is returned.
C21_LocalSourceRejected ==
    (ResolverRan /\ LocalInstallation(env0.meta)) =>
        /\ env0.meta.lgit = "none" =>
            /\ ReturnedNothing
            /\ get_repo(env0.meta).err = NotVersionControlled
        /\ (env0.meta.lgit = "ok" /\ env0.meta.ldirty) =>
            /\ ReturnedNothing
            /\ get_repo(env0.meta).err = DirtySource

C21_Witness ==
    /\ ResolverRan /\ LocalInstallation(env0.meta) /\ ReturnedNothing
    /\ env0.meta.lgit = "ok" /\ env0.meta.ldirty /\ env0.meta.ldetached
    /\ get_repo(env0.meta).err = DirtySource

\* C22: the resolver raises a cannot-detect-source error and returns nothing
\* when the package metadata location is missing, when direct_url.json is
\* absent or cannot be read, and when the record has no url or an empty one;
\* it returns only when a non-empty url was read.
C22_SourceUndetectable ==
    ResolverRan =>
        LET m == env0.meta
            r == get_repo(m)
        IN  /\ m.dist = "nopath" =>
                (ReturnedNothing /\ r.err = "RuntimeError: package metadata not found")
            /\ (m.dist = "ok" /\ m.file = "absent") =>
                (ReturnedNothing /\ r.err = "RuntimeError: direct_url.json not found")
            /\ (m.dist = "ok" /\ m.file = "unreadable") =>
                (ReturnedNothing /\ r.err = "RuntimeError: Failed to read direct_url.json")
            /\ (m.dist = "ok" /\ m.file = "ok" /\ m.url \in {None, <<>>}) =>
                (ReturnedNothing
                 /\ r.err = "RuntimeError: URL not found in installation metadata")
            /\ ~r.ok => (ReturnedNothing /\ r.err \in SourceUndetectable
                                                    \cup {NotVersionControlled, DirtySource,
                                                          "RuntimeError: failed to access repository"})
            /\ exit = "0" =>
                (m.dist = "ok" /\ m.file = "ok" /\ m.url # None /\ m.url # <<>>
                 /\ src_path # None)

C22_Witness ==
    /\ ResolverRan /\ ReturnedNothing
    /\ env0.meta.file = "ok" /\ env0.meta.url = <<>>
    /\ get_repo(env0.meta).err \in SourceUndetectable

\* ------------------------------------------------ properties: fatal paths
\* the printed lines that name what went wrong
CauseLines ==
    { M_DIRTY, M_GITSTATUS, M_VALFAILED, M_NOGIT, M_NOANSWERS, M_NOCOMMIT, M_NOKEY,
      M_PARSE, M_INFRACTIONS, M_CONFLICTS, M_ERR_COMMIT }

\* the printed lines that tell the user what to do
RemediationLines ==
    { M_STASH, M_VALFAILED, M_NOGIT, M_NOANSWERS, M_RESOLVE, M_SEE, M_REVIEW, M_UNDO,
      M_MANUAL }

\* C23, as claimed, on the executions the program itself ends with exit
\* code 1 (what the traceback of an uncaught exception shows is not judged):
\* a cause and a remediation instruction have both been printed.
C23_Original ==
    (cmd \in {"init", "update", "validate"} /\ pc = "done" /\ exit = "1") =>
        /\ \E m \in CauseLines : Printed(m)
        /\ \E m \in RemediationLines : Printed(m)

\* C24, as claimed: no step of validate's own checks (the preconditions on
\* the repository and the answers record; the policy file and the
\* infractions) ends in an exception, standalone or inside update.
C24_Original ==
    [][(pc \in {"v_pre", "v_policy"}) => exit' # "exc"]_vars

\* ------------------------------------------ properties: update's commits
\* C25: the step that ends update with exit code 0 leaves no unmerged path
\* and a clean tree; it stages everything and commits, once, exactly when
\* the tree was dirty after the reconciler update, and otherwise reports
\* that there are no changes and makes no commit.
C25_ExitZeroIsClean ==
    [][(cmd = "update" /\ pc = "u_commit" /\ exit' = "0") =>
            /\ ~unmerged'
            /\ wt' = {} /\ index' = {}
            /\ IF wt # {} \/ index # {}
               THEN /\ history' = Append(history, Commit("Update project from template",
                                                         wt \cup index))
                    /\ M_COMMITTED \in Range(out')
                    /\ M_NOCHANGES \notin Range(out')
               ELSE /\ history' = history
                    /\ M_NOCHANGES \in Range(out')
                    /\ M_COMMITTING \notin Range(out')]_vars

C25_Witness ==
    /\ cmd = "update" /\ pc = "done" /\ exit = "0"
    /\ Printed(M_COMMITTED) /\ ~Printed(M_NOCHANGES)
    /\ wt = {} /\ index = {} /\ ~unmerged
    /\ Len(history) = Len(env0.history) + 1
    /\ history[Len(history)].files = {ANSWERS_FILE, MANAGE_FILE}

\* C26, as claimed: when update is about to call the reconciler update, the
\* working tree has no uncommitted or untracked change.
C26_Original ==
    (cmd = "update" /\ pc = "u_run") => (wt = {} /\ index = {})

\* C27: every source-change commit records exactly one changed file, the
\* answers record.
C27_SourceCommitSingleFile ==
    \A i \in 1..Len(history) :
        history[i].msg = "Update template source" => history[i].files = {ANSWERS_FILE}

C27_Witness ==
    /\ cmd = "update" /\ pc = "u_run"
    /\ Len(history) = Len(env0.history) + 1
    /\ history[Len(history)] = Commit("Update template source", {ANSWERS_FILE})
    /\ Printed(M_COMMITTED_SRC)

\* C28: when the source resolver raises during init (no source detectable,
\* a local source that is not a repository, or a dirty one), init ends there:
\* no copy is run, no marker is touched, no commit is made and nothing of
\* the destination's content changes; the directory and the revision store
\* that the first steps created are there, and a revision store the
\* destination already had is left as it was, not initialised again.
C28_InitStopsAtResolver ==
    (cmd = "init" /\ pc = "done" /\ Called("get_repo") /\ ~get_repo(env0.meta).ok) =>
        /\ exit = "exc"
        /\ get_repo(env0.meta).err \in
               SourceUndetectable \cup {NotVersionControlled, DirtySource}
        /\ ~Called("run_copy") /\ ~Called("touch")
        /\ ~Called("add") /\ ~Called("commit")
        /\ history = env0.history
        /\ answers = env0.answers /\ policy = env0.policy
        /\ wt = env0.wt /\ index = env0.index
        /\ dir # "absent" /\ git # "none"
        /\ env0.dir = "absent" => Called("mkdir")
        /\ env0.git = "none" => (Called("Repo.init") /\ git = "ok")
        /\ env0.git # "none" => (~Called("Repo.init") /\ git = env0.git)

C28_Witness ==
    /\ cmd = "init" /\ pc = "done" /\ exit = "exc"
    /\ env0.dir = "absent" /\ dir = "empty" /\ git = "ok"
    /\ get_repo(env0.meta).err = DirtySource
    /\ Called("get_repo") /\ ~Called("run_copy")

\* ------------------------------------------- properties: validate's frame
\* validate is running or has ended, standalone or as update's sub-step
InValidate ==
    \/ cmd = "validate"
    \/ cmd = "update" /\ pc \in {"v_pre", "v_resolve", "v_redirect", "v_recopy", "v_policy", "u_validated"}

\* C29: during and after validate, whatever it returns, the answers record,
\* the policy file, the working tree, the index, the commit history and the
\* destination's state against the template are what they were when the
\* execution started; and the report and the infractions of one execution
\* are not there when the next one starts.
C29_ValidateReadOnly ==
    /\ InValidate =>
        /\ answers = env0.answers /\ policy = env0.policy
        /\ wt = env0.wt /\ index = env0.index /\ unmerged = env0.unmerged
        /\ history = env0.history
        /\ git = env0.git /\ dir = env0.dir
        /\ drift = env0.drift
    /\ pc \in {"v_pre", "u_clean"} => (output = <<>> /\ infractions = <<>>)

C29_Witness ==
    /\ cmd = "validate" /\ pc = "done" /\ vres = "False"
    /\ output # <<>> /\ infractions # <<>>
    /\ env0.wt # {} /\ wt = env0.wt
    /\ drift = env0.drift /\ answers = env0.answers

\* ------------------------------------ properties: the diagnostic channel
\* the lines validate itself prints
ValidateStatusLines ==
    {M_VALIDATING, M_NOGIT, M_NOANSWERS, M_NOCOMMIT, M_SKIP, M_SUCCESS, M_NOKEY, M_PARSE,
     M_INFRACTIONS, M_UNDO}

\* the positions of out that hold a line of the captured report
ReportLinesPrinted == {k \in DOMAIN out : out[k] \in Range(output)}

\* C30: the diagnostic channel points at the buffer only while the dry-run
\* recopy call is in progress and points at the terminal again once the call
\* has returned or raised; the buffer holds none of validate's status lines;
\* and a captured line is on standard output only as one of the infractions,
\* unchanged, between the infractions heading and the undo request.
C30_DiagnosticsCaptured ==
    /\ stderr = "buffer" => pc = "v_recopy"
    /\ (pc = "done" /\ Called("run_recopy")) => stderr = "terminal"
    /\ Range(output) \cap ValidateStatusLines = {}
    /\ \A k \in ReportLinesPrinted :
        /\ out[k] \in Range(infractions)
        /\ \E i, j \in DOMAIN out : i < k /\ k < j /\ out[i] = M_INFRACTIONS /\ out[j] = M_UNDO
    /\ (ReportLinesPrinted # {}) => vres = "False"

C30_Witness ==
    /\ cmd = "validate" /\ pc = "done" /\ vres = "False"
    /\ stderr = "terminal" /\ Called("run_recopy")
    /\ output = <<L_CONFLICT_M, L_CREATE_S, L_CONFLICT_M>> /\ infractions = <<L_CONFLICT_M>>
    /\ out = <<M_VALIDATING, M_INFRACTIONS, L_CONFLICT_M, M_UNDO>>

====
